---- MODULE Spec2Model ----
(***************************************************************************)
(* Model of class rational (rational.h / rational.cpp): a pair of          *)
(* fixed-width signed integers (num, denom) and the operations on it.      *)
(* std::int64_t is scaled down to W bits.  Signed overflow, std::abs and   *)
(* negation of the minimum, and std::gcd on the minimum wrap around in     *)
(* two's complement, as the x86-64 builds of rational.cpp do; an integer   *)
(* division by zero either traps or yields 0.                              *)
(***************************************************************************)
EXTENDS Integers, FiniteSets, Sequences, TLC

(* Width in bits of integer_t in the model (64 in the program). *)
W == 4

Modulus == 2 ^ W
MinInt == -(2 ^ (W - 1))
MaxInt == (2 ^ (W - 1)) - 1
integer_t == MinInt .. MaxInt

(* The value a W-bit two's-complement register holds for the integer x. *)
Wrap(x) == ((x - MinInt) % Modulus) + MinInt

Mul(x, y) == Wrap(x * y)
Add(x, y) == Wrap(x + y)
Sub(x, y) == Wrap(x - y)
Neg(x) == Wrap(-x)

(* std::abs on integer_t: abs of the minimum wraps onto itself. *)
abs(x) == IF x < 0 THEN Neg(x) ELSE x

(* Magnitude as a natural number (no width). *)
Mag(x) == IF x < 0 THEN -x ELSE x

RECURSIVE Euclid(_, _)
Euclid(m, n) == IF n = 0 THEN m ELSE Euclid(n, m % n)

(* std::gcd: computed on the magnitudes, converted back to integer_t. *)
gcd(m, n) == Wrap(Euclid(Mag(m), Mag(n)))

(* Built-in integer division, truncating toward zero; y # 0. *)
Quot(x, y) ==
  LET q == Mag(x) \div Mag(y)
  IN  Wrap(IF (x < 0) = (y < 0) THEN q ELSE -q)

Rat(n, d) == [num |-> n, denom |-> d]

Outcome(s, n, d) == [st |-> s, num |-> n, denom |-> d]

(* The sign normalisation at the end of simplify. *)
FixSign(n, d) ==
  IF (n < 0) # (d < 0)
    THEN Rat(Neg(abs(n)), abs(d))
    ELSE IF (n < 0) /\ (d < 0)
      THEN Rat(Neg(n), Neg(d))
      ELSE Rat(n, d)

(* simplify with the reduction by the gcd left out. *)
simplifyNoReduce(n, d) ==
  LET r == FixSign(n, d) IN { Outcome("ok", r.num, r.denom) }

(* rational::simplify on the pair (n, d).  A result is a set of outcomes:   *)
(* when gcd is 0 the divisions num /= div, denom /= div divide by zero,     *)
(* which either traps (SIGFPE) or yields 0, depending on the target.        *)
simplify(n, d) ==
  LET div == gcd(n, d)
  IN  IF div = 0
        THEN { Outcome("SIGFPE", n, d),
               LET r == FixSign(0, 0) IN Outcome("ok", r.num, r.denom) }
        ELSE LET r == FixSign(Quot(n, div), Quot(d, div))
             IN  { Outcome("ok", r.num, r.denom) }

(* The two messages carried by std::invalid_argument. *)
ZeroDenominator == "Denominator must be non-zero."
ZeroDivisor == "Cannot divide by zero."

(* The constructor with the test of the denominator left out. *)
rationalUnchecked(numerator, denominator) == simplify(numerator, denominator)

(* rational::rational(integer_t numerator, integer_t denominator) *)
rational(numerator, denominator) ==
  IF denominator = 0
    THEN { Outcome(ZeroDenominator, numerator, denominator) }
    ELSE simplify(numerator, denominator)

(* rational::rational(integer_t value) *)
rationalInt(value) == Rat(value, 1)

(* rational::rational(const rational& other) *)
Copy(other) == Rat(other.num, other.denom)

(* rational::operator=(const rational& other) *)
opAssign(this, other) == [this EXCEPT !.num = other.num, !.denom = other.denom]

(* rational::operator+() const *)
opPlus(this) == rational(abs(this.num), abs(this.denom))

(* rational::operator-() const *)
opMinus(this) == rational(Neg(this.num), this.denom)

(* What a read through the reference `other` sees while the object holds   *)
(* cur: the object itself when other aliases *this, else the operand.      *)
Deref(cur, other, aliased) == IF aliased THEN cur ELSE other

(* rational::operator+=(const rational& other) *)
opAddAssign(this, other, aliased) ==
  LET s1 == [this EXCEPT !.num =
               Add(Mul(this.num, Deref(this, other, aliased).denom),
                   Mul(this.denom, Deref(this, other, aliased).num))]
      s2 == [s1 EXCEPT !.denom = Mul(s1.denom, Deref(s1, other, aliased).denom)]
  IN  simplify(s2.num, s2.denom)

(* rational::operator-=(const rational& other) *)
opSubAssign(this, other, aliased) ==
  LET s1 == [this EXCEPT !.num =
               Sub(Mul(this.num, Deref(this, other, aliased).denom),
                   Mul(this.denom, Deref(this, other, aliased).num))]
      s2 == [s1 EXCEPT !.denom = Mul(s1.denom, Deref(s1, other, aliased).denom)]
  IN  simplify(s2.num, s2.denom)

(* rational::operator*=(const rational& other) *)
opMulAssign(this, other, aliased) ==
  LET s1 == [this EXCEPT !.num = Mul(this.num, Deref(this, other, aliased).num)]
      s2 == [s1 EXCEPT !.denom = Mul(s1.denom, Deref(s1, other, aliased).denom)]
  IN  simplify(s2.num, s2.denom)

(* operator/= testing the divisor only after the two multiplications. *)
opDivAssignLateCheck(this, other, aliased) ==
  LET s1 == [this EXCEPT !.num =
               Mul(this.num, Deref(this, other, aliased).denom)]
      s2 == [s1 EXCEPT !.denom = Mul(s1.denom, Deref(s1, other, aliased).num)]
  IN  IF Deref(s2, other, aliased).num = 0
        THEN { Outcome(ZeroDivisor, s2.num, s2.denom) }
        ELSE simplify(s2.num, s2.denom)

(* rational::operator/=(const rational& other) *)
opDivAssign(this, other, aliased) ==
  IF Deref(this, other, aliased).num = 0
    THEN { Outcome(ZeroDivisor, this.num, this.denom) }
    ELSE LET s1 == [this EXCEPT !.num =
                      Mul(this.num, Deref(this, other, aliased).denom)]
             s2 == [s1 EXCEPT !.denom =
                      Mul(s1.denom, Deref(s1, other, aliased).num)]
         IN  simplify(s2.num, s2.denom)

(* The binary forms take left by value and apply the compound form to it. *)
opAdd(left, right) == opAddAssign(Copy(left), right, FALSE)

opSub(left, right) == opSubAssign(Copy(left), right, FALSE)

opMul(left, right) == opMulAssign(Copy(left), right, FALSE)

opDiv(left, right) == opDivAssign(Copy(left), right, FALSE)

(* operator++ adding 1 to the numerator instead of the denominator. *)
opPreIncByOne(this) == [this EXCEPT !.num = Add(this.num, 1)]

(* rational::operator++() *)
opPreInc(this) == [this EXCEPT !.num = Add(this.num, abs(this.denom))]

(* rational::operator--() *)
opPreDec(this) == [this EXCEPT !.num = Sub(this.num, abs(this.denom))]

(* rational::operator++(int): the returned copy and the new state. *)
opPostInc(this) == [old |-> Copy(this), new |-> opPreInc(this)]

(* rational::operator--(int) *)
opPostDec(this) == [old |-> Copy(this), new |-> opPreDec(this)]

(* operator== comparing the magnitudes only. *)
opEqNoSign(left, right) ==
  abs(Mul(left.num, right.denom)) = abs(Mul(left.denom, right.num))

(* operator==(const rational&, const rational&) *)
opEq(left, right) ==
  LET left_neg == (left.num < 0) # (left.denom < 0)
      right_neg == (right.num < 0) # (right.denom < 0)
      left_crit == abs(Mul(left.num, right.denom))
      right_crit == abs(Mul(left.denom, right.num))
  IN  IF left_neg # right_neg THEN FALSE ELSE left_crit = right_crit

(* operator!= *)
opNe(left, right) == ~opEq(left, right)

(* operator< with non-strict comparisons of the cross products. *)
opLtNonStrict(left, right) ==
  LET left_neg == (left.num < 0) # (left.denom < 0)
      right_neg == (right.num < 0) # (right.denom < 0)
      left_crit == abs(Mul(left.num, right.denom))
      right_crit == abs(Mul(left.denom, right.num))
  IN  IF left_neg # right_neg
        THEN left_neg
        ELSE IF left_neg THEN left_crit >= right_crit ELSE left_crit <= right_crit

(* operator< *)
opLt(left, right) ==
  LET left_neg == (left.num < 0) # (left.denom < 0)
      right_neg == (right.num < 0) # (right.denom < 0)
      left_crit == abs(Mul(left.num, right.denom))
      right_crit == abs(Mul(left.denom, right.num))
  IN  IF left_neg # right_neg
        THEN left_neg
        ELSE IF left_neg THEN left_crit > right_crit ELSE left_crit < right_crit

(* operator> *)
opGt(left, right) == opLt(right, left)

(* operator<= *)
opLe(left, right) == ~opGt(left, right)

(* operator>= *)
opGe(left, right) == ~opLt(left, right)

(* ---------------------------------------------------------------------- *)
(* The state: one rational object r that a caller operates on, the record  *)
(* of the call that has just returned, and the caller's position.          *)
VARIABLES r, last, pc

vars == <<r, last, pc>>

(* Right operands and temporaries: every value a constructor yields. *)
Operands ==
  { Rat(o.num, o.denom) :
      o \in { x \in UNION { rational(n, d) : n \in integer_t, d \in integer_t } :
                x.st = "ok" } }

NoCall == [op |-> "none", pre |-> Rat(0, 1), arg |-> <<>>, ret |-> <<>>,
           err |-> "ok", cmp |-> <<>>]

Call(name, this, args, rets, status) ==
  [op |-> name, pre |-> this, arg |-> args, ret |-> rets, err |-> status,
   cmp |-> <<>>]

(* Where the caller stands after a call that ended with status st: a trap  *)
(* ends the process, an exception reaches the caller.                      *)
After(st) == IF st = "SIGFPE" THEN "terminated" ELSE "returned"

(* rational zeno(0); *)
Init ==
  /\ r = rationalInt(0)
  /\ last = NoCall
  /\ pc = "ready"

(* r = rational(value); *)
ConstructInt ==
  /\ pc = "ready"
  /\ \E value \in integer_t :
       LET tmp == rationalInt(value)
       IN  /\ r' = opAssign(r, tmp)
           /\ last' = Call("rational(v)", r, <<Rat(value, 1)>>, <<tmp>>, "ok")
  /\ pc' = "returned"

(* r = rational(numerator, denominator); *)
Construct ==
  /\ pc = "ready"
  /\ \E n \in integer_t, d \in integer_t :
       \E o \in rational(n, d) :
         /\ r' = IF o.st = "ok" THEN opAssign(r, Rat(o.num, o.denom)) ELSE r
         /\ last' = Call("rational(n,d)", r, <<Rat(n, d)>>,
                         IF o.st = "ok" THEN <<Rat(o.num, o.denom)>> ELSE <<>>,
                         o.st)
         /\ pc' = After(o.st)

(* r += other; *)
AddAssign ==
  /\ pc = "ready"
  /\ \E other \in Operands :
       \E o \in opAddAssign(r, other, FALSE) :
         /\ r' = Rat(o.num, o.denom)
         /\ last' = Call("+=", r, <<other>>, <<>>, o.st)
         /\ pc' = After(o.st)

(* r -= other; *)
SubAssign ==
  /\ pc = "ready"
  /\ \E other \in Operands :
       \E o \in opSubAssign(r, other, FALSE) :
         /\ r' = Rat(o.num, o.denom)
         /\ last' = Call("-=", r, <<other>>, <<>>, o.st)
         /\ pc' = After(o.st)

(* r *= other; *)
MulAssign ==
  /\ pc = "ready"
  /\ \E other \in Operands :
       \E o \in opMulAssign(r, other, FALSE) :
         /\ r' = Rat(o.num, o.denom)
         /\ last' = Call("*=", r, <<other>>, <<>>, o.st)
         /\ pc' = After(o.st)

(* r /= other; *)
DivAssign ==
  /\ pc = "ready"
  /\ \E other \in Operands :
       \E o \in opDivAssign(r, other, FALSE) :
         /\ r' = Rat(o.num, o.denom)
         /\ last' = Call("/=", r, <<other>>, <<>>, o.st)
         /\ pc' = After(o.st)

(* r += r;  (other is a reference to r itself) *)
SelfAddAssign ==
  /\ pc = "ready"
  /\ \E o \in opAddAssign(r, r, TRUE) :
       /\ r' = Rat(o.num, o.denom)
       /\ last' = Call("self+=", r, <<r>>, <<>>, o.st)
       /\ pc' = After(o.st)

(* r -= r; *)
SelfSubAssign ==
  /\ pc = "ready"
  /\ \E o \in opSubAssign(r, r, TRUE) :
       /\ r' = Rat(o.num, o.denom)
       /\ last' = Call("self-=", r, <<r>>, <<>>, o.st)
       /\ pc' = After(o.st)

(* r *= r; *)
SelfMulAssign ==
  /\ pc = "ready"
  /\ \E o \in opMulAssign(r, r, TRUE) :
       /\ r' = Rat(o.num, o.denom)
       /\ last' = Call("self*=", r, <<r>>, <<>>, o.st)
       /\ pc' = After(o.st)

(* r /= r; *)
SelfDivAssign ==
  /\ pc = "ready"
  /\ \E o \in opDivAssign(r, r, TRUE) :
       /\ r' = Rat(o.num, o.denom)
       /\ last' = Call("self/=", r, <<r>>, <<>>, o.st)
       /\ pc' = After(o.st)

(* The value a call hands back: nothing unless it completed. *)
Returned(o) == IF o.st = "ok" THEN <<Rat(o.num, o.denom)>> ELSE <<>>

(* const auto sum = r + other; *)
BinaryAdd ==
  /\ pc = "ready"
  /\ \E other \in Operands :
       \E o \in opAdd(r, other) :
         /\ last' = Call("+", r, <<other>>, Returned(o), o.st)
         /\ pc' = After(o.st)
  /\ UNCHANGED r

(* const auto diff = r - other; *)
BinarySub ==
  /\ pc = "ready"
  /\ \E other \in Operands :
       \E o \in opSub(r, other) :
         /\ last' = Call("-", r, <<other>>, Returned(o), o.st)
         /\ pc' = After(o.st)
  /\ UNCHANGED r

(* const auto prod = r * other; *)
BinaryMul ==
  /\ pc = "ready"
  /\ \E other \in Operands :
       \E o \in opMul(r, other) :
         /\ last' = Call("*", r, <<other>>, Returned(o), o.st)
         /\ pc' = After(o.st)
  /\ UNCHANGED r

(* const auto quot = r / other; *)
BinaryDiv ==
  /\ pc = "ready"
  /\ \E other \in Operands :
       \E o \in opDiv(r, other) :
         /\ last' = Call("/", r, <<other>>, Returned(o), o.st)
         /\ pc' = After(o.st)
  /\ UNCHANGED r

(* const auto pos = +r; *)
UnaryPlus ==
  /\ pc = "ready"
  /\ \E o \in opPlus(r) :
       /\ last' = Call("+r", r, <<>>, Returned(o), o.st)
       /\ pc' = After(o.st)
  /\ UNCHANGED r

(* const auto neg = -r;  followed by the uses made of it: -(-r), r + (-r) *)
UnaryMinus ==
  /\ pc = "ready"
  /\ \E o \in opMinus(r) :
       /\ last' = Call("-r", r, <<>>, Returned(o), o.st)
       /\ pc' = After(o.st)
  /\ UNCHANGED r

(* The test that minus minus r equals r. *)
DoubleMinus ==
  /\ pc = "ready"
  /\ \E o1 \in opMinus(r) :
       IF o1.st # "ok"
         THEN /\ last' = Call("-(-r)==r", r, <<>>, <<>>, o1.st)
              /\ pc' = After(o1.st)
         ELSE \E o2 \in opMinus(Rat(o1.num, o1.denom)) :
                /\ last' = [Call("-(-r)==r", r, <<>>, Returned(o2), o2.st)
                             EXCEPT !.cmp =
                               IF o2.st = "ok"
                                 THEN <<[eq |-> opEq(Rat(o2.num, o2.denom), r)]>>
                                 ELSE <<>>]
                /\ pc' = After(o2.st)
  /\ UNCHANGED r

(* r + (-r) *)
PlusMinus ==
  /\ pc = "ready"
  /\ \E o1 \in opMinus(r) :
       IF o1.st # "ok"
         THEN /\ last' = Call("r+(-r)", r, <<>>, <<>>, o1.st)
              /\ pc' = After(o1.st)
         ELSE \E o2 \in opAdd(r, Rat(o1.num, o1.denom)) :
                /\ last' = Call("r+(-r)", r, <<>>, Returned(o2), o2.st)
                /\ pc' = After(o2.st)
  /\ UNCHANGED r

(* ++r; *)
PreInc ==
  /\ pc = "ready"
  /\ r' = opPreInc(r)
  /\ last' = Call("++r", r, <<>>, <<opPreInc(r)>>, "ok")
  /\ pc' = "returned"

(* const auto old = r++; *)
PostInc ==
  /\ pc = "ready"
  /\ r' = opPostInc(r).new
  /\ last' = Call("r++", r, <<>>, <<opPostInc(r).old>>, "ok")
  /\ pc' = "returned"

(* --r; *)
PreDec ==
  /\ pc = "ready"
  /\ r' = opPreDec(r)
  /\ last' = Call("--r", r, <<>>, <<opPreDec(r)>>, "ok")
  /\ pc' = "returned"

(* const auto old = r--; *)
PostDec ==
  /\ pc = "ready"
  /\ r' = opPostDec(r).new
  /\ last' = Call("r--", r, <<>>, <<opPostDec(r).old>>, "ok")
  /\ pc' = "returned"

(* The six comparisons of r with other, and of other with r. *)
Compare ==
  /\ pc = "ready"
  /\ \E other \in Operands :
       last' = [Call("compare", r, <<other>>, <<>>, "ok") EXCEPT !.cmp =
                 <<[eq |-> opEq(r, other), ne |-> opNe(r, other),
                    lt |-> opLt(r, other), le |-> opLe(r, other),
                    gt |-> opGt(r, other), ge |-> opGe(r, other)],
                   [eq |-> opEq(other, r), ne |-> opNe(other, r),
                    lt |-> opLt(other, r), le |-> opLe(other, r),
                    gt |-> opGt(other, r), ge |-> opGe(other, r)]>>]
  /\ pc' = "returned"
  /\ UNCHANGED r

(* The equality of r with itself and, both ways round, with a second b. *)
EqualityLaws ==
  /\ pc = "ready"
  /\ \E b \in Operands :
       last' = [Call("==", r, <<b>>, <<>>, "ok") EXCEPT !.cmp =
                 <<[aa |-> opEq(r, r), ab |-> opEq(r, b), ba |-> opEq(b, r)]>>]
  /\ pc' = "returned"
  /\ UNCHANGED r

(* For b equal to r and c equal to b, the equality of r with c. *)
EqualityChain ==
  /\ pc = "ready"
  /\ \E b \in Operands :
       /\ opEq(r, b)
       /\ \E c \in Operands :
            /\ opEq(b, c)
            /\ last' = [Call("==,==", r, <<b, c>>, <<>>, "ok") EXCEPT !.cmp =
                          <<[ab |-> opEq(r, b), bc |-> opEq(b, c),
                             ac |-> opEq(r, c)]>>]
  /\ pc' = "returned"
  /\ UNCHANGED r

(* Right after r = rational(n, d): the equality of rational(k * n, k * d)
   with r, for the k whose products k * n and k * d are integer_t values. *)
ScaledEquality ==
  /\ pc = "returned"
  /\ last.op = "rational(n,d)"
  /\ last.err = "ok"
  /\ \E k \in integer_t \ {0} :
       LET n == last.arg[1].num
           d == last.arg[1].denom
       IN  /\ k * n \in integer_t
           /\ k * d \in integer_t
           /\ \E x \in rational(k * n, k * d) :
                /\ last' = [Call("scaled==", r, <<Rat(n, d), Rat(k * n, k * d)>>,
                                  Returned(x), x.st)
                             EXCEPT !.cmp =
                               IF x.st = "ok"
                                 THEN <<[eq |-> opEq(Rat(x.num, x.denom), r)]>>
                                 ELSE <<>>]
                /\ pc' = After(x.st)
  /\ UNCHANGED r

(* Right after r = rational(n, d):  r != -r *)
NegatedInequality ==
  /\ pc = "returned"
  /\ last.op = "rational(n,d)"
  /\ last.err = "ok"
  /\ \E o \in opMinus(r) :
       /\ last' = [Call("r!=-r", r, <<last.arg[1]>>, Returned(o), o.st)
                    EXCEPT !.cmp =
                      IF o.st = "ok"
                        THEN <<[ne |-> opNe(r, Rat(o.num, o.denom))]>>
                        ELSE <<>>]
       /\ pc' = After(o.st)
  /\ UNCHANGED r

(* The caller goes on to its next statement; temporaries are gone. *)
Continue ==
  /\ pc = "returned"
  /\ pc' = "ready"
  /\ last' = NoCall
  /\ UNCHANGED r

Next ==
  \/ ConstructInt
  \/ Construct
  \/ AddAssign
  \/ SubAssign
  \/ MulAssign
  \/ DivAssign
  \/ SelfAddAssign
  \/ SelfSubAssign
  \/ SelfMulAssign
  \/ SelfDivAssign
  \/ BinaryAdd
  \/ BinarySub
  \/ BinaryMul
  \/ BinaryDiv
  \/ UnaryPlus
  \/ UnaryMinus
  \/ DoubleMinus
  \/ PlusMinus
  \/ PreInc
  \/ PostInc
  \/ PreDec
  \/ PostDec
  \/ Compare
  \/ EqualityLaws
  \/ EqualityChain
  \/ ScaledEquality
  \/ NegatedInequality
  \/ Continue

Spec == Init /\ [][Next]_vars

(* ---------------------------------------------------------------------- *)
(* Vocabulary of the properties, in unbounded integers.                    *)

(* denominator > 0 and gcd(|numerator|, denominator) = 1 *)
Normal(x) == x.denom > 0 /\ Euclid(Mag(x.num), x.denom) = 1

(* x is the lowest-terms, positive-denominator form of the fraction p/q. *)
IsLowestTermsOf(x, p, q) == Normal(x) /\ x.num * q = x.denom * p

(* A value of magnitude at most MaxInt: it and its negation fit the width. *)
Fits(x) == -MaxInt <= x /\ x <= MaxInt

BinaryOps == {"+", "-", "*", "/"}
CompoundOps == {"+=", "-=", "*=", "/="}
SelfOps == {"self+=", "self-=", "self*=", "self/="}

(* Exact numerator and denominator of a op b before reduction. *)
ExactNum(op, a, b) ==
  CASE op \in {"+", "+=", "self+="} -> a.num * b.denom + a.denom * b.num
    [] op \in {"-", "-=", "self-="} -> a.num * b.denom - a.denom * b.num
    [] op \in {"*", "*=", "self*="} -> a.num * b.num
    [] op \in {"/", "/=", "self/="} -> a.num * b.denom

ExactDenom(op, a, b) ==
  CASE op \in {"/", "/=", "self/="} -> a.denom * b.num
    [] OTHER -> a.denom * b.denom

(* The products and sums the compound operator forms on the way. *)
Intermediates(op, a, b) ==
  CASE op \in {"*", "*=", "self*="} -> {a.num * b.num, a.denom * b.denom}
    [] op \in {"/", "/=", "self/="} -> {a.num * b.denom, a.denom * b.num}
    [] OTHER -> {a.num * b.denom, a.denom * b.num, a.denom * b.denom,
                 ExactNum(op, a, b)}

(* No operand field and no intermediate product or sum exceeds the width. *)
NoOverflow(op, a, b) ==
  \A x \in {a.num, a.denom, b.num, b.denom} \cup Intermediates(op, a, b) :
    Fits(x)

(* C1: after any sequence of operations the stored pair has denominator > 0
   and gcd(|numerator|, denominator) = 1 (zero is 0/1). *)
C1_InvariantAlways == pc # "terminated" => Normal(r)

(* C2: for all rationals a and b, a + b, a - b, a * b and (b's numerator not
   0) a / b return the lowest-terms, positive-denominator form of the exact
   sum, difference, product and quotient. *)
C2_ExactForAll ==
  (/\ last.op \in BinaryOps
   /\ Normal(last.pre) /\ Normal(last.arg[1])
   /\ (last.op = "/" => last.arg[1].num # 0))
  => /\ last.err = "ok"
     /\ Len(last.ret) = 1
     /\ IsLowestTermsOf(last.ret[1],
                        ExactNum(last.op, last.pre, last.arg[1]),
                        ExactDenom(last.op, last.pre, last.arg[1]))

(* C2 (amended): for all a and b with nonzero denominators, whenever no
   operand field, cross product, sum or difference exceeds magnitude
   2^(w-1)-1, the binary operators return the lowest-terms,
   positive-denominator form of the exact result. *)
C2_ExactWithoutOverflow ==
  (/\ last.op \in BinaryOps
   /\ last.pre.denom # 0 /\ last.arg[1].denom # 0
   /\ (last.op = "/" => last.arg[1].num # 0)
   /\ NoOverflow(last.op, last.pre, last.arg[1]))
  => /\ last.err = "ok"
     /\ Len(last.ret) = 1
     /\ IsLowestTermsOf(last.ret[1],
                        ExactNum(last.op, last.pre, last.arg[1]),
                        ExactDenom(last.op, last.pre, last.arg[1]))

C2_Witness ==
  /\ last.op = "+"
  /\ last.pre = Rat(1, 2) /\ last.arg = <<Rat(1, 3)>>
  /\ last.ret = <<Rat(5, 6)>>

(* C3: dividing by a rational whose numerator is 0 fails with the
   division-by-zero error, and the left operand of /= keeps the numerator
   and denominator it had before the call. *)
C3_DivideByZeroLeavesOperand ==
  (/\ last.op \in {"/=", "/", "self/="}
   /\ last.arg[1].num = 0)
  => /\ last.err = ZeroDivisor
     /\ last.ret = <<>>
     /\ r = last.pre

C3_Witness ==
  /\ last.op = "/="
  /\ last.arg = <<Rat(0, 1)>>
  /\ last.pre = Rat(3, 4)
  /\ last.err = ZeroDivisor
  /\ r = Rat(3, 4)

(* C4: constructing from (n, d) with d = 0 fails with the invalid-argument
   error for every n and yields no instance; with d # 0 it never fails. *)
C4_ZeroDenominatorRejected ==
  last.op = "rational(n,d)"
  => IF last.arg[1].denom = 0
       THEN last.err = ZeroDenominator /\ last.ret = <<>> /\ r = last.pre
       ELSE last.err = "ok" /\ Len(last.ret) = 1 /\ r = last.ret[1]

C4_Witness ==
  /\ last.op = "rational(n,d)"
  /\ last.arg = <<Rat(5, 0)>>
  /\ last.err = ZeroDenominator
  /\ last.ret = <<>>

(* C5: for all a and b exactly one of a < b, a == b, a > b holds, and
   a <= b iff not (a > b), a >= b iff not (a < b), a > b iff b < a,
   a != b iff not (a == b). *)
C5_Trichotomy ==
  last.op = "compare"
  => LET ab == last.cmp[1]
         ba == last.cmp[2]
     IN  /\ Cardinality({ k \in {"lt", "eq", "gt"} : ab[k] }) = 1
         /\ Cardinality({ k \in {"lt", "eq", "gt"} : ba[k] }) = 1
         /\ ab.le = ~ab.gt
         /\ ab.ge = ~ab.lt
         /\ ab.gt = ba.lt
         /\ ab.ne = ~ab.eq

C5_Witness ==
  /\ last.op = "compare"
  /\ last.pre = Rat(-3, 2) /\ last.arg = <<Rat(-1, 1)>>
  /\ last.cmp[1].lt /\ ~last.cmp[1].eq /\ ~last.cmp[1].gt
  /\ last.cmp[2].gt

IncDecOps == {"++r", "r++", "--r", "r--"}

(* The numerator r + 1 (r - 1) has over the unchanged denominator. *)
SteppedNum(op, a) ==
  IF op \in {"++r", "r++"} THEN a.num + a.denom ELSE a.num - a.denom

(* C7: for every rational r, postfix r++ returns the numerator and
   denominator r had before and leaves r with the same denominator and the
   numerator increased by the denominator; prefix ++ yields the same new
   state; -- is symmetric with minus 1. *)
C7_StepForAll ==
  (last.op \in IncDecOps /\ Normal(last.pre))
  => /\ r.denom = last.pre.denom
     /\ r.num = SteppedNum(last.op, last.pre)
     /\ last.ret = <<IF last.op \in {"r++", "r--"} THEN last.pre ELSE r>>

(* C7 (amended): for every rational r whose numerator plus (for --, minus)
   its denominator is representable in the width, postfix r++ returns the
   pair r had before and leaves r with the same denominator and the
   numerator increased by the denominator; prefix ++ yields the same new
   state; -- is symmetric. *)
C7_StepWithoutOverflow ==
  (last.op \in IncDecOps /\ SteppedNum(last.op, last.pre) \in integer_t)
  => /\ r.denom = last.pre.denom
     /\ r.num = SteppedNum(last.op, last.pre)
     /\ last.ret = <<IF last.op \in {"r++", "r--"} THEN last.pre ELSE r>>

C7_Witness ==
  /\ last.op = "r++"
  /\ last.pre = Rat(-4, 7)
  /\ last.ret = <<Rat(-4, 7)>>
  /\ r = Rat(3, 7)

(* C9: for every rational r, r op= r leaves r as r op= (an independent copy
   of r) does, for +=, -=, *= and (r's numerator not 0) /=.  Stated for the
   r whose products fit the width, where the copy's result is exact. *)
C9_NoAliasingHazard ==
  (/\ last.op \in SelfOps
   /\ Normal(last.pre)
   /\ NoOverflow(last.op, last.pre, last.pre)
   /\ (last.op = "self/=" => last.pre.num # 0))
  => \E o \in (CASE last.op = "self+=" -> opAddAssign(last.pre, Copy(last.pre), FALSE)
                  [] last.op = "self-=" -> opSubAssign(last.pre, Copy(last.pre), FALSE)
                  [] last.op = "self*=" -> opMulAssign(last.pre, Copy(last.pre), FALSE)
                  [] last.op = "self/=" -> opDivAssign(last.pre, Copy(last.pre), FALSE)) :
       o.st = last.err /\ r = Rat(o.num, o.denom)

(* C10: with w-bit wrap-around arithmetic, +=, -=, *= on any two valid
   rationals and /= with a divisor whose numerator is not 0 always complete
   without signalling an error, also when a product overflows. *)
C10_OverflowIsSilent ==
  (/\ last.op \in CompoundOps
   /\ Normal(last.pre) /\ Normal(last.arg[1])
   /\ (last.op = "/=" => last.arg[1].num # 0))
  => last.err = "ok"

(* C8: for every rational r, +r has numerator |r.numerator()| and
   denominator r.denominator(), -r has numerator -r.numerator() and the
   same denominator, -(-r) == r, r + (-r) is 0/1, and r is unchanged.
   Stated for the r whose numerator has a representable negation. *)
C8_UnaryForAll ==
  (/\ last.op \in {"+r", "-r", "-(-r)==r", "r+(-r)"}
   /\ Normal(last.pre)
   /\ Fits(last.pre.num))
  => /\ last.err = "ok"
     /\ r = last.pre
     /\ last.op = "+r" => last.ret = <<Rat(Mag(last.pre.num), last.pre.denom)>>
     /\ last.op = "-r" => last.ret = <<Rat(-last.pre.num, last.pre.denom)>>
     /\ last.op = "-(-r)==r" => last.cmp = <<[eq |-> TRUE]>>
     /\ last.op = "r+(-r)" => last.ret = <<Rat(0, 1)>>

(* C6: operator== is reflexive, symmetric and transitive; it does not
   depend on the unreduced inputs, rational(k*n, k*d) == rational(n, d) for
   d # 0 and k # 0; and rational(n, d) != -rational(n, d) whenever n # 0. *)
C6_EqualityForAll ==
  /\ last.op = "==" => last.cmp[1].aa /\ (last.cmp[1].ab = last.cmp[1].ba)
  /\ last.op = "==,==" => last.cmp[1].ac
  /\ last.op = "scaled==" => last.cmp = <<[eq |-> TRUE]>>
  /\ (last.op = "r!=-r" /\ last.arg[1].num # 0) => last.cmp = <<[ne |-> TRUE]>>

(* C6 (amended): operator== is reflexive, symmetric and transitive;
   rational(k*n, k*d) == rational(n, d) for d # 0 and k # 0; and
   rational(n, d) != -rational(n, d) whenever n # 0 and neither the
   numerator nor the denominator of rational(n, d) is the minimum integer
   -2^(w-1). *)
C6_EqualityExceptMinInt ==
  /\ last.op = "==" => last.cmp[1].aa /\ (last.cmp[1].ab = last.cmp[1].ba)
  /\ last.op = "==,==" => last.cmp[1].ac
  /\ last.op = "scaled==" => last.cmp = <<[eq |-> TRUE]>>
  /\ (/\ last.op = "r!=-r" /\ last.arg[1].num # 0
      /\ last.pre.num # MinInt /\ last.pre.denom # MinInt)
     => last.cmp = <<[ne |-> TRUE]>>

C6_Witness ==
  /\ last.op = "r!=-r"
  /\ last.arg = <<Rat(4, -6)>>
  /\ last.pre = Rat(-2, 3)
  /\ last.ret = <<Rat(2, 3)>>
  /\ last.cmp = <<[ne |-> TRUE]>>

====
